---- MODULE Spec2Model ----
(***************************************************************************)
(* A model of sdt.py (khutchens/multicom): the device resolution protocol  *)
(* (SerialInputDevice / SocketInputDevice constructors and the device      *)
(* initialization loop of __main__) and the select()-driven multiplex loop *)
(* with the line framing done by SerialInputDevice._read_line_raw.         *)
(*                                                                         *)
(* Text and byte strings are sequences of one-character strings, so that   *)
(* iterating a str, globbing, escape decoding and bytes.rstrip are         *)
(* computed the way Python computes them.                                  *)
(***************************************************************************)
EXTENDS Integers, Sequences, FiniteSets, TLC

VARIABLES
    args,        \* args.config: the configuration files named on the command line
    ai,          \* index of conf_fpath in args.config
    config,      \* the dict `config`: (name, device config) pairs in insertion order
    dev_confs,   \* the merged configuration: sequence of device configs, in dict order
    fs,          \* paths that exist in the filesystem (what glob.glob sees)
    openable,    \* paths serial.Serial() opens without SerialException
    pc,          \* position of __main__: "config", "init", "select", "read",
                 \* "terminated", "crashed"
    di,          \* index of dev_name in the device initialization loop
    ti,          \* index of dev_type in [SerialInputDevice, SocketInputDevice]
    devices,     \* the list `devices` of live device objects
    out,         \* everything printed so far
    calls,       \* history: every constructor invocation, with what it globbed and opened
    reads,       \* the list `reads` returned by the last select.select
    ri,          \* index in `reads` of the device `r` being read
    buf,         \* per live device: bytes received by the OS, not yet read
    line,        \* per live device: bytearray accumulated by the read_until in progress
    emitted,     \* history: per live device, every byte the device has sent
    rawlog,      \* history: per finished read_line, what read_until returned and why it ended
    gone,        \* the live devices whose connection has dropped
    iter         \* history: the number of select.select calls that have returned

vars == <<args, ai, config, dev_confs, fs, openable, pc, di, ti, devices, out, calls,
          reads, ri, buf, line, emitted, rawlog, gone, iter>>

resolveVars == <<di, ti, devices, calls>>
loopVars    == <<reads, ri, buf, line, emitted, rawlog, gone, iter>>
envVars     == <<args, ai, config, dev_confs, fs, openable>>

----------------------------------------------------------------------------
(* Bounds of the model *)

MaxDevices  == 2    \* devices in one configuration mapping
MaxPatterns == 2    \* glob patterns in one tty_path list
MaxEmit     == 3    \* bytes the devices send, all together, during a run
MaxRules    == 2    \* rules in one highlight mapping
MaxFiles    == 2    \* configuration files on the command line

----------------------------------------------------------------------------
(* Sequence helpers *)

Last(s) == s[Len(s)]

Range(s) == {s[k] : k \in 1..Len(s)}

SeqsUpTo(S, n) == UNION {[1..k -> S] : k \in 0..n}

----------------------------------------------------------------------------
(* The filesystem and glob.glob *)

Root == <<"/">>

FilePaths == {<<"/", "a">>, <<"/", "b">>, <<"a">>}

\* fnmatch of one pattern against one path; "*" never crosses a "/"
RECURSIVE Match(_, _)
Match(p, s) ==
    IF p = <<>> THEN s = <<>>
    ELSE IF Head(p) = "*"
         THEN Match(Tail(p), s)
              \/ (s # <<>> /\ Head(s) # "/" /\ Match(p, Tail(s)))
         ELSE s # <<>> /\ Head(s) = Head(p) /\ Match(Tail(p), Tail(s))

\* glob.glob(pathglob): the existing paths the pattern names.  A pattern with an
\* empty basename names a directory; any other pattern names directory entries.
Glob(pathglob) ==
    {s \in fs : Match(pathglob, s) /\ ((Last(s) = "/") <=> (Last(pathglob) = "/"))}

----------------------------------------------------------------------------
(* Device configurations *)

Keys == {"tty_path", "baud", "parity", "endline", "timeout_s", "tcp_port"}

SerialKeys == <<"baud", "parity", "endline", "timeout_s">>

ParityValues == {"none", "even", "odd", "mark"}

PatternSet == {<<"/", "a">>, <<"/", "b">>, <<"/", "*">>}

\* tty_path as YAML gives it: a list of pattern strings, or one bare string
TtyLists == {[kind |-> "list", val |-> l] : l \in SeqsUpTo(PatternSet, MaxPatterns)}

TtyStrs == {[kind |-> "str", val |-> s] : s \in {<<"/", "a">>, <<"a">>}}

Conf(keys, tty, parity, endline) ==
    [keys |-> keys, tty_path |-> tty, parity |-> parity, endline |-> endline,
     highlight |-> <<>>]

\* a device config with a `highlight` mapping: (pattern, replacement) pairs in
\* the insertion order of the mapping, no pattern twice
WithHighlight(conf, rules) ==
    [conf EXCEPT !.keys = @ \cup {"highlight"}, !.highlight = rules]

AllSerial == Keys \ {"tcp_port"}

TtyA == [kind |-> "list", val |-> <<<<"/", "a">>>>]

----------------------------------------------------------------------------
(* Exceptions and messages *)

NoMsg == [text |-> "", key |-> "", valid |-> <<>>, pats |-> <<>>, paths |-> {}]

\* What one constructor call did: the exception it ended in ("ok" when it
\* returned), the exception's message, the path it settled on, the decoded
\* terminator, the patterns it handed to glob.glob and the paths it handed to
\* serial.Serial, each in call order.
Result(outcome, msg, path, endline, globbed, opened) ==
    [outcome |-> outcome, msg |-> msg, path |-> path, endline |-> endline,
     globbed |-> globbed, opened |-> opened]

Raise(outcome, msg, globbed, opened) ==
    Result(outcome, msg, <<>>, <<>>, globbed, opened)

----------------------------------------------------------------------------
(* InputDevice.__init__ and InputDevice.read_line: highlighting *)

\* self.highlight: the rules of config['highlight'] in insertion order, and
\* no rule when the key is absent (KeyError is ignored)
Highlight(conf) == IF "highlight" \in conf.keys THEN conf.highlight ELSE <<>>

\* re.sub(pattern, sub, line) for a pattern that is one literal character and
\* a literal replacement: every occurrence in the line is replaced, from left
\* to right, and the replacement text is not searched again
RECURSIVE Sub(_, _, _)
Sub(pattern, sub, text) ==
    IF text = <<>> THEN <<>>
    ELSE (IF Head(text) = pattern THEN sub ELSE <<Head(text)>>)
         \o Sub(pattern, sub, Tail(text))

\* the rules applied last to first
RECURSIVE ApplyRulesReversed(_, _)
ApplyRulesReversed(rules, text) ==
    IF rules = <<>> THEN text
    ELSE ApplyRulesReversed(SubSeq(rules, 1, Len(rules) - 1),
                            Sub(Last(rules).pattern, Last(rules).sub, text))

\* for pattern, sub in self.highlight.items(): line = re.sub(pattern, sub, line)
RECURSIVE ApplyRules(_, _)
ApplyRules(rules, text) ==
    IF rules = <<>> THEN text
    ELSE ApplyRules(Tail(rules), Sub(Head(rules).pattern, Head(rules).sub, text))

----------------------------------------------------------------------------
(* InputDevice helpers *)

\* _detect_type: KeyError on the discriminating key becomes NoDeviceError
DetectType(conf, key) == key \in conf.keys

\* _init_configs: the keys are looked up in order; the first KeyError raises
MissingKeys(conf, keys) == {k \in 1..Len(keys) : keys[k] \notin conf.keys}

LastMissing(conf, keys) ==
    keys[CHOOSE k \in MissingKeys(conf, keys) :
            \A j \in MissingKeys(conf, keys) : k >= j]

FirstMissing(conf, keys) ==
    keys[CHOOSE k \in MissingKeys(conf, keys) :
            \A j \in MissingKeys(conf, keys) : k <= j]

\* str.encode('utf-8').decode('unicode_escape').encode('utf-8') on the
\* escapes backslash-n, backslash-r and backslash-backslash
RECURSIVE UnicodeEscape(_)
UnicodeEscape(s) ==
    IF s = <<>> THEN <<>>
    ELSE IF Head(s) = "\\" /\ Len(s) >= 2
         THEN LET c == s[2]
                  b == IF c = "n" THEN "\n" ELSE IF c = "r" THEN "\r" ELSE c
              IN  <<b>> \o UnicodeEscape(Tail(Tail(s)))
         ELSE <<Head(s)>> \o UnicodeEscape(Tail(s))

TranslateParityNoOdd == <<"none", "even">>

\* the keys of translate_parity, in dict order
TranslateParity == <<"none", "even", "odd">>

\* `for pathglob in self.tty_path`: a list yields its elements, a str yields
\* its characters, each a one-character string
Iterate(tty) ==
    IF tty.kind = "list" THEN tty.val
    ELSE [k \in 1..Len(tty.val) |-> <<tty.val[k]>>]

----------------------------------------------------------------------------
(* SerialInputDevice.__init__ *)

\* serial.Serial(paths[0], ...): SerialException is re-raised as InputDeviceError
OpenSerial(path, endline, globbed) ==
    IF path \in openable
    THEN Result("ok", NoMsg, path, endline, globbed, <<path>>)
    ELSE Raise("InputDeviceError",
               [NoMsg EXCEPT !.text = "could not open port", !.paths = {path}],
               globbed, <<path>>)

NoMatchNever(paths) == FALSE

\* `if len(paths) == 0: continue`
NoMatch(paths) == Cardinality(paths) = 0

AnyMatch(paths) == Cardinality(paths) >= 1

\* `elif len(paths) == 1`
OneMatch(paths) == Cardinality(paths) = 1

NoDeviceFoundAsNoDevice(pats, globbed) ==
    Raise("NoDeviceError", NoMsg, globbed, <<>>)

\* the raise after the loop: every item of tty_path, joined by spaces
NoDeviceFound(pats, globbed) ==
    Raise("InputDeviceError",
          [NoMsg EXCEPT !.text = "No device found for", !.pats = pats],
          globbed, <<>>)

\* the loop over self.tty_path, from its k-th item on
RECURSIVE GlobLoop(_, _, _, _)
GlobLoop(pats, k, endline, globbed) ==
    IF k > Len(pats)
    THEN NoDeviceFound(pats, globbed)
    ELSE LET pathglob == pats[k]
             paths    == Glob(pathglob)
             seen     == Append(globbed, pathglob)
         IN  IF NoMatch(paths)
             THEN GlobLoop(pats, k + 1, endline, seen)
             ELSE IF OneMatch(paths)
                  THEN OpenSerial(CHOOSE p \in paths : TRUE, endline, seen)
                  ELSE Raise("ConfigParseError",
                             [NoMsg EXCEPT !.text = "Ambiguous path",
                                           !.pats = <<pathglob>>,
                                           !.paths = paths],
                             seen, <<>>)

SerialInputDevice(conf) ==
    IF ~DetectType(conf, "tty_path")
    THEN Raise("NoDeviceError", NoMsg, <<>>, <<>>)
    ELSE IF MissingKeys(conf, SerialKeys) # {}
    THEN Raise("ConfigParseError",
               [NoMsg EXCEPT !.text = "Missing config key",
                             !.key = FirstMissing(conf, SerialKeys)],
               <<>>, <<>>)
    ELSE IF conf.parity \notin Range(TranslateParity)
    THEN Raise("ConfigParseError",
               [NoMsg EXCEPT !.text = "Invalid parity value",
                             !.key = conf.parity,
                             !.valid = TranslateParity],
               <<>>, <<>>)
    ELSE GlobLoop(Iterate(conf.tty_path), 1, UnicodeEscape(conf.endline), <<>>)

----------------------------------------------------------------------------
(* SocketInputDevice.__init__ *)

SocketInputDevice(conf) ==
    IF ~DetectType(conf, "tcp_port")
    THEN Raise("NoDeviceError", NoMsg, <<>>, <<>>)
    ELSE Raise("NotImplementedError",
               [NoMsg EXCEPT !.text = "TCP sockets not implemented yet"],
               <<>>, <<>>)

----------------------------------------------------------------------------
(* __main__: reading the configuration files *)

\* one line of output: what is printed, about which device or file, with which
\* exception message and which text
Printed(kind, dev, msg, text) == [kind |-> kind, dev |-> dev, msg |-> msg, text |-> text]

\* dict.update: a key already present keeps its place and takes the new
\* value, a new key is added at the end
Update(dict, content) ==
    LET has(d, n)  == \E k \in 1..Len(d) : d[k].name = n
        at(d, n)   == d[CHOOSE k \in 1..Len(d) : d[k].name = n]
    IN  [k \in 1..Len(dict) |->
            IF has(content, dict[k].name) THEN at(content, dict[k].name) ELSE dict[k]]
        \o SelectSeq(content, LAMBDA e : ~has(dict, e.name))

\* the values of a dict, in insertion order (`dev_confs[dev_name]` for each name)
Values(dict) == [k \in 1..Len(dict) |-> dict[k].conf]

\* One pass of the body of `for conf_fpath in args.config`.  open() succeeds
\* on a readable file, raises FileNotFoundError on a missing one, which is
\* caught and printed, and raises PermissionError on an unreadable one, which
\* no clause catches.  After the last file: devices = [], dev_confs = config.
ReadConfig ==
    /\ pc = "config"
    /\ ai <= Len(args)
    /\ LET f == args[ai]
       IN  IF f.status = "unreadable"
           THEN /\ pc' = "crashed"
                /\ UNCHANGED <<ai, config, dev_confs, out>>
           ELSE /\ config' = IF f.status = "ok" THEN Update(config, f.content) ELSE config
                /\ out' = Append(out, Printed(IF f.status = "ok"
                                               THEN "Reading config file"
                                               ELSE "Failed opening file",
                                              ai, NoMsg, <<>>))
                /\ ai' = ai + 1
                /\ IF ai = Len(args)
                   THEN pc' = "init" /\ dev_confs' = Values(config')
                   ELSE pc' = pc /\ dev_confs' = dev_confs
    /\ UNCHANGED <<args, fs, openable, resolveVars, loopVars>>

----------------------------------------------------------------------------
(* __main__: device initialization *)

\* for dev_type in [SerialInputDevice, SocketInputDevice]
DevTypes == <<"Serial", "Socket">>

Construct(t, conf) ==
    IF DevTypes[t] = "Serial" THEN SerialInputDevice(conf) ELSE SocketInputDevice(conf)

\* the except clauses of the loop body, in order; NoDeviceError prints nothing
Report(dev, r) ==
    IF r.outcome = "ConfigParseError"
    THEN <<Printed("Failed parsing config", dev, r.msg, <<>>)>>
    ELSE IF r.outcome = "InputDeviceError"
    THEN <<Printed("Failed opening device", dev, r.msg, <<>>)>>
    ELSE <<>>

\* the inner loop without its break
NeverBreaks(r) == FALSE

\* `if dev != None: break`
Breaks(r) == r.outcome = "ok"

\* the object the constructor returned: name, highlight rules, label
\* ('Serial TTY, ' and the path), the open port and the decoded terminator
Device(dev, r) ==
    [name |-> dev, highlight |-> Highlight(dev_confs[dev]),
     label |-> <<"Serial TTY, ">> \o r.path, path |-> r.path,
     endline |-> r.endline]

\* One pass of the body of `for dev_type in [...]` for the device di: the
\* constructor call, the except clauses, the break test and, when the inner
\* loop ends here, the append that follows it.  NotImplementedError is caught
\* by no clause and ends the process.
TryVariant ==
    /\ pc = "init"
    /\ di <= Len(dev_confs)
    /\ LET r == Construct(ti, dev_confs[di])
           last == Breaks(r) \/ ti = Len(DevTypes)
       IN  /\ calls' = Append(calls, [dev |-> di, type |-> DevTypes[ti], r |-> r])
           /\ IF r.outcome = "NotImplementedError"
              THEN /\ pc' = "crashed"
                   /\ UNCHANGED <<di, ti, devices, out>>
              ELSE /\ pc' = pc
                   /\ out' = out \o Report(di, r)
                   /\ devices' = IF Breaks(r) THEN Append(devices, Device(di, r))
                                 ELSE devices
                   /\ di' = IF last THEN di + 1 ELSE di
                   /\ ti' = IF last THEN 1 ELSE ti + 1
    /\ UNCHANGED <<envVars, loopVars>>

\* the loop entered only when a device is live
StartLoopNeedsDevice ==
    /\ pc = "init"
    /\ di > Len(dev_confs)
    /\ devices # <<>>
    /\ out' = out \o [k \in 1..Len(devices) |->
                        Printed("banner", devices[k].name, NoMsg, devices[k].label)]
                  \o <<Printed("-----", 0, NoMsg, <<>>)>>
    /\ pc' = "select"
    /\ buf' = [k \in 1..Len(devices) |-> <<>>]
    /\ line' = [k \in 1..Len(devices) |-> <<>>]
    /\ emitted' = [k \in 1..Len(devices) |-> <<>>]
    /\ UNCHANGED <<envVars, resolveVars, reads, ri, rawlog, gone, iter>>

\* The banner: one line per live device, then the separator; the while loop
\* is entered.
StartLoop ==
    /\ pc = "init"
    /\ di > Len(dev_confs)
    /\ out' = out \o [k \in 1..Len(devices) |->
                        Printed("banner", devices[k].name, NoMsg, devices[k].label)]
                  \o <<Printed("-----", 0, NoMsg, <<>>)>>
    /\ pc' = "select"
    /\ buf' = [k \in 1..Len(devices) |-> <<>>]
    /\ line' = [k \in 1..Len(devices) |-> <<>>]
    /\ emitted' = [k \in 1..Len(devices) |-> <<>>]
    /\ UNCHANGED <<envVars, resolveVars, reads, ri, rawlog, gone, iter>>

----------------------------------------------------------------------------
(* Line framing: SerialInputDevice._read_line_raw *)

\* the bytes a device may send
Bytes == {"a", "\n", "\r"}

\* `line[-lenterm:] == expected` of Serial.read_until
EndsWith(bs, expected) ==
    /\ Len(bs) >= Len(expected)
    /\ SubSeq(bs, Len(bs) - Len(expected) + 1, Len(bs)) = expected

\* bytes.rstrip(chars): drops every trailing byte that occurs in chars
RECURSIVE Rstrip(_, _)
Rstrip(bs, chars) ==
    IF bs # <<>> /\ Last(bs) \in Range(chars)
    THEN Rstrip(SubSeq(bs, 1, Len(bs) - 1), chars)
    ELSE bs

\* bytes.decode('utf-8', errors='replace'): ASCII bytes decode to themselves,
\* a byte that is no valid UTF-8 becomes the replacement character
Decode(bs) == [k \in 1..Len(bs) |-> IF bs[k] \in Bytes THEN bs[k] ELSE "U+FFFD"]

\* read_until(...).rstrip(self.endline).decode(...)
ReadLineRaw(raw, endline) == Decode(Rstrip(raw, endline))

----------------------------------------------------------------------------
(* __main__: the multiplex loop *)

Live == 1..Len(devices)

InLoop == pc \in {"select", "read"}

\* the number of bytes sent so far by the devices from..Len(devices)
RECURSIVE Sent(_)
Sent(from) == IF from > Len(devices) THEN 0 ELSE Len(emitted[from]) + Sent(from + 1)

\* the device sends one byte; the OS buffers it
Emit(d, b) ==
    /\ InLoop
    /\ d \in Live \ gone
    /\ Sent(1) < MaxEmit
    /\ buf' = [buf EXCEPT ![d] = Append(@, b)]
    /\ emitted' = [emitted EXCEPT ![d] = Append(@, b)]
    /\ UNCHANGED <<envVars, resolveVars, pc, out, reads, ri, line, rawlog, gone, iter>>

\* the connection of device d drops (the adapter is unplugged): what the OS
\* had buffered is gone with it
Drop(d) ==
    /\ InLoop
    /\ d \in Live \ gone
    /\ gone' = gone \cup {d}
    /\ buf' = [buf EXCEPT ![d] = <<>>]
    /\ UNCHANGED <<envVars, resolveVars, pc, out, reads, ri, line, emitted, rawlog, iter>>

\* the sub-list of devices[from..] whose descriptor is readable: bytes are
\* waiting, or the connection has dropped (a hung-up descriptor is readable)
RECURSIVE Ready(_)
Ready(from) ==
    IF from > Len(devices) THEN <<>>
    ELSE (IF buf[from] # <<>> \/ from \in gone THEN <<from>> ELSE <<>>)
         \o Ready(from + 1)

\* select.select(devices, [], []) returns once at least one device is
\* readable, with the readable devices in the order of `devices`
Select ==
    /\ pc = "select"
    /\ Ready(1) # <<>>
    /\ reads' = Ready(1)
    /\ ri' = 1
    /\ pc' = "read"
    /\ iter' = iter + 1
    /\ UNCHANGED <<envVars, resolveVars, out, buf, line, emitted, rawlog, gone>>

\* the loop body with `for r in reads` cut down to reads[0]
FinishFirstOnly(raw, why) ==
    LET d == reads[ri]
    IN  /\ out' = Append(out, Printed("line", devices[d].name, NoMsg,
                                      ApplyRules(devices[d].highlight,
                                                 ReadLineRaw(raw, devices[d].endline))))
        /\ rawlog' = Append(rawlog, [dev |-> d, raw |-> raw, why |-> why,
                                     ret |-> ReadLineRaw(raw, devices[d].endline)])
        /\ line' = [line EXCEPT ![d] = <<>>]
        /\ ri' = ri
        /\ pc' = "select"
        /\ UNCHANGED reads

\* the loop body reading the same device again while bytes are waiting
FinishDrain(raw, why) ==
    LET d == reads[ri]
    IN  /\ out' = Append(out, Printed("line", devices[d].name, NoMsg,
                                      ApplyRules(devices[d].highlight,
                                                 ReadLineRaw(raw, devices[d].endline))))
        /\ rawlog' = Append(rawlog, [dev |-> d, raw |-> raw, why |-> why,
                                     ret |-> ReadLineRaw(raw, devices[d].endline)])
        /\ line' = [line EXCEPT ![d] = <<>>]
        /\ IF buf'[d] # <<>>
           THEN ri' = ri /\ pc' = "read"
           ELSE IF ri < Len(reads)
           THEN ri' = ri + 1 /\ pc' = "read"
           ELSE ri' = ri /\ pc' = "select"
        /\ UNCHANGED reads

\* read_until has returned `raw` for the device reads[ri]: print(r.read_line()),
\* then the next r of `for r in reads`, or the next select
Finish(raw, why) ==
    LET d == reads[ri]
    IN  /\ out' = Append(out, Printed("line", devices[d].name, NoMsg,
                                      ApplyRules(devices[d].highlight,
                                                 ReadLineRaw(raw, devices[d].endline))))
        /\ rawlog' = Append(rawlog, [dev |-> d, raw |-> raw, why |-> why,
                                     ret |-> ReadLineRaw(raw, devices[d].endline)])
        /\ line' = [line EXCEPT ![d] = <<>>]
        /\ IF ri < Len(reads)
           THEN ri' = ri + 1 /\ pc' = "read"
           ELSE ri' = ri /\ pc' = "select"
        /\ UNCHANGED reads

\* read(1) handing out the newest waiting byte instead of the oldest
ReadByteLast(expired) ==
    /\ pc = "read"
    /\ reads[ri] \notin gone
    /\ LET d == reads[ri]
       IN  /\ buf[d] # <<>>
           /\ buf' = [buf EXCEPT ![d] = SubSeq(@, 1, Len(@) - 1)]
           /\ LET got == Append(line[d], Last(buf[d]))
              IN  IF EndsWith(got, devices[d].endline)
                  THEN Finish(got, "terminator")
                  ELSE IF expired
                  THEN Finish(got, "timeout")
                  ELSE /\ line' = [line EXCEPT ![d] = got]
                       /\ UNCHANGED <<pc, out, reads, ri, rawlog>>
    /\ UNCHANGED <<envVars, resolveVars, emitted, gone, iter>>

\* read_until: self.read(1) returned a byte.  The read ends when the line now
\* ends with the terminator, or when the timeout has expired meanwhile.
ReadByte(expired) ==
    /\ pc = "read"
    /\ reads[ri] \notin gone
    /\ LET d == reads[ri]
       IN  /\ buf[d] # <<>>
           /\ buf' = [buf EXCEPT ![d] = Tail(@)]
           /\ LET got == Append(line[d], Head(buf[d]))
              IN  IF EndsWith(got, devices[d].endline)
                  THEN Finish(got, "terminator")
                  ELSE IF expired
                  THEN Finish(got, "timeout")
                  ELSE /\ line' = [line EXCEPT ![d] = got]
                       /\ UNCHANGED <<pc, out, reads, ri, rawlog>>
    /\ UNCHANGED <<envVars, resolveVars, emitted, gone, iter>>

\* read_until: self.read(1) returned nothing within timeout_s
ReadTimeout ==
    /\ pc = "read"
    /\ reads[ri] \notin gone
    /\ buf[reads[ri]] = <<>>
    /\ Finish(line[reads[ri]], "timeout")
    /\ UNCHANGED <<envVars, resolveVars, buf, emitted, gone, iter>>

\* a failed read answered by opening the port again
ReadFailsReconnect ==
    /\ pc = "read"
    /\ reads[ri] \in gone
    /\ gone' = gone \ {reads[ri]}
    /\ calls' = Append(calls, [dev |-> devices[reads[ri]].name, type |-> "Serial",
                               r |-> SerialInputDevice(dev_confs[devices[reads[ri]].name])])
    /\ UNCHANGED <<envVars, di, ti, devices, pc, out, reads, ri, buf, line, emitted,
                   rawlog, iter>>

\* read_until on a device whose connection has dropped: self.read(1) raises
\* SerialException, which no except clause of the loop catches; the process
\* ends with a traceback
ReadFails ==
    /\ pc = "read"
    /\ reads[ri] \in gone
    /\ pc' = "crashed"
    /\ UNCHANGED <<envVars, resolveVars, loopVars, out>>

\* KeyboardInterrupt raised inside the try block: print("") and leave
Interrupt ==
    /\ InLoop
    /\ pc' = "terminated"
    /\ out' = Append(out, Printed("", 0, NoMsg, <<>>))
    /\ UNCHANGED <<envVars, resolveVars, loopVars>>

----------------------------------------------------------------------------
(* Initial states *)

\* one device, every combination of keys and every parity value
ShapeConfs == {Conf(k, TtyA, p, <<"\\", "n">>) : k \in SUBSET Keys, p \in ParityValues}

\* one complete serial device, every tty_path
GlobConfs == {Conf(AllSerial, t, "none", <<"\\", "n">>) : t \in TtyLists \cup TtyStrs}

\* the device configs that mappings of several devices are built from
MapConfs ==
    {Conf(k, t, "none", <<"\\", "n">>) :
        k \in {AllSerial, Keys, AllSerial \ {"baud"}, Keys \ {"baud"}, {"tcp_port"}, {}},
        t \in {TtyA}}
    \cup {Conf(AllSerial, [kind |-> "list", val |-> <<<<"/", "b">>>>], "none",
               <<"\\", "r", "\\", "n">>),
          Conf(AllSerial, [kind |-> "list", val |-> <<<<"/", "*">>>>], "none",
               <<"\\", "n">>)}

Mappings ==
    {<<c>> : c \in ShapeConfs \cup GlobConfs}
    \cup UNION {[1..n -> MapConfs] : n \in 1..MaxDevices}

\* the dict built from a device config sequence; a device is named by its number
Named(confs) == [k \in 1..Len(confs) |-> [name |-> k, conf |-> confs[k]]]

\* printed while loading one readable configuration file
LoadedOne == <<Printed("Reading config file", 1, NoMsg, <<>>)>>

\* the process after argument parsing and the loading of one readable
\* configuration file, before the first device is initialized
Init ==
    /\ dev_confs \in Mappings
    /\ args = <<[status |-> "ok", content |-> Named(dev_confs)]>>
    /\ ai = 2
    /\ config = Named(dev_confs)
    /\ fs \in {{Root} \cup f : f \in SUBSET FilePaths}
    /\ openable \in SUBSET (fs \ {Root})
    /\ pc = "init"
    /\ di = 1
    /\ ti = 1
    /\ devices = <<>>
    /\ out = LoadedOne
    /\ calls = <<>>
    /\ reads = <<>>
    /\ ri = 1
    /\ buf = <<>>
    /\ line = <<>>
    /\ emitted = <<>>
    /\ rawlog = <<>>
    /\ gone = {}
    /\ iter = 0

Next == TryVariant \/ StartLoop

Spec == Init /\ [][Next]_vars

\* The multiplex loop on its own: the process right after the banner, with
\* one or two serial devices resolved from complete configurations.
LoopEndlines == {<<"\\", "n">>, <<"\\", "r", "\\", "n">>}

LoopConf(k, e) ==
    Conf(AllSerial,
         [kind |-> "list", val |-> <<IF k = 1 THEN <<"/", "a">> ELSE <<"/", "b">>>>],
         "none", e)

\* the process right after the banner, every device of confs resolved
Running(confs) ==
    /\ dev_confs = confs
    /\ args = <<[status |-> "ok", content |-> Named(dev_confs)]>>
    /\ ai = 2
    /\ config = Named(dev_confs)
    /\ fs = {Root} \cup FilePaths
    /\ openable = FilePaths
    /\ pc = "select"
    /\ di = Len(dev_confs) + 1
    /\ ti = 1
    /\ devices = [k \in 1..Len(dev_confs) |-> Device(k, SerialInputDevice(dev_confs[k]))]
    /\ calls = [k \in 1..Len(dev_confs) |->
                  [dev |-> k, type |-> "Serial", r |-> SerialInputDevice(dev_confs[k])]]
    /\ out = LoadedOne
             \o [k \in 1..Len(dev_confs) |->
                   Printed("banner", devices[k].name, NoMsg, devices[k].label)]
             \o <<Printed("-----", 0, NoMsg, <<>>)>>
    /\ reads = <<>>
    /\ ri = 1
    /\ buf = [k \in 1..Len(dev_confs) |-> <<>>]
    /\ line = [k \in 1..Len(dev_confs) |-> <<>>]
    /\ emitted = [k \in 1..Len(dev_confs) |-> <<>>]
    /\ rawlog = <<>>
    /\ gone = {}
    /\ iter = 0

InitLoop ==
    \E confs \in {<<LoopConf(1, e)>> : e \in LoopEndlines}
                 \cup {<<LoopConf(1, e1), LoopConf(2, e2)>> :
                         e1 \in LoopEndlines, e2 \in LoopEndlines} :
        Running(confs)

\* some device sends some byte
DeviceSends == \E d \in Live, b \in Bytes : Emit(d, b)

\* read(1) returns a byte, with the timeout expired by then or not
ReadStep == \E expired \in BOOLEAN : ReadByte(expired)

Reading == DeviceSends \/ Select \/ ReadStep \/ ReadTimeout

NextLoop == Reading \/ Interrupt

SpecLoop == InitLoop /\ [][NextLoop]_vars

\* The whole start-up: up to MaxFiles configuration files, each readable,
\* missing or unreadable, a readable one holding up to MaxDevices devices.
FileConfs == {LoopConf(1, <<"\\", "n">>), Conf({"baud"}, TtyA, "none", <<"\\", "n">>)}

FileContents == {Named(cs) : cs \in SeqsUpTo(FileConfs, MaxDevices)}

Files ==
    {[status |-> "ok", content |-> c] : c \in FileContents}
    \cup {[status |-> st, content |-> <<>>] : st \in {"missing", "unreadable"}}

InitConfig ==
    /\ args \in SeqsUpTo(Files, MaxFiles) \ {<<>>}
    /\ ai = 1
    /\ config = <<>>
    /\ dev_confs = <<>>
    /\ fs = {Root} \cup FilePaths
    /\ openable = FilePaths
    /\ pc = "config"
    /\ di = 1
    /\ ti = 1
    /\ devices = <<>>
    /\ out = <<>>
    /\ calls = <<>>
    /\ reads = <<>>
    /\ ri = 1
    /\ buf = <<>>
    /\ line = <<>>
    /\ emitted = <<>>
    /\ rawlog = <<>>
    /\ gone = {}
    /\ iter = 0

NextConfig == ReadConfig \/ TryVariant \/ StartLoop

SpecConfig == InitConfig /\ [][NextConfig]_vars

\* some connection drops
Drops == \E d \in Live : Drop(d)

\* The multiplex loop with connections that may drop.
NextDrop == NextLoop \/ Drops \/ ReadFails

SpecDrop == InitLoop /\ [][NextDrop]_vars

\* The whole run, from the configuration file to the end of the process, for
\* one readable file holding: no device; a device no variant claims; a device
\* whose port cannot be opened; one and two serial devices; a device with
\* both tty_path and tcp_port.
MainMappings ==
    LET A == LoopConf(1, <<"\\", "n">>)
        B == LoopConf(2, <<"\\", "n">>)
        U == Conf({"baud"}, TtyA, "none", <<"\\", "n">>)
    IN  {<<>>, <<U>>, <<B>>, <<A>>, <<A, B>>, <<B, A>>, <<A, A>>,
         <<Conf(Keys, TtyA, "none", <<"\\", "n">>)>>}

InitMain ==
    /\ args \in {<<[status |-> "ok", content |-> Named(m)]>> : m \in MainMappings}
    /\ ai = 1
    /\ config = <<>>
    /\ dev_confs = <<>>
    /\ fs = {Root} \cup FilePaths
    /\ openable = {<<"/", "a">>}
    /\ pc = "config"
    /\ di = 1
    /\ ti = 1
    /\ devices = <<>>
    /\ out = <<>>
    /\ calls = <<>>
    /\ reads = <<>>
    /\ ri = 1
    /\ buf = <<>>
    /\ line = <<>>
    /\ emitted = <<>>
    /\ rawlog = <<>>
    /\ gone = {}
    /\ iter = 0

NextMain == NextConfig \/ NextDrop

SpecMain == InitMain /\ [][NextMain]_vars

\* The multiplex loop with one device and every highlight mapping: the key
\* absent, an empty mapping, and up to MaxRules rules.
RulePatterns == {"a", "b"}

RuleSubs == {<<"b">>, <<"c">>, <<"a", "a">>}

RuleLists ==
    {l \in SeqsUpTo([pattern : RulePatterns, sub : RuleSubs], MaxRules) :
        \A i, j \in 1..Len(l) : i # j => l[i].pattern # l[j].pattern}

HighlightConfs ==
    {LoopConf(1, <<"\\", "n">>)}
    \cup {WithHighlight(LoopConf(1, <<"\\", "n">>), l) : l \in RuleLists}

InitHighlight == \E c \in HighlightConfs : Running(<<c>>)

SpecHighlight == InitHighlight /\ [][NextLoop]_vars

\* No interrupt arrives.  The loop is one thread that runs whenever it can,
\* and a blocked read(1) returns after timeout_s at the latest.
FairLoop == InitLoop /\ [][Reading]_vars /\ WF_vars(Select)
            /\ WF_vars(ReadStep)
            /\ WF_vars(ReadTimeout)

----------------------------------------------------------------------------
(* Properties of the device resolution, stated over the history `calls` *)

SerialCalls == {c \in Range(calls) : c.type = "Serial"}

ConfOf(c) == dev_confs[c.dev]

\* the configuration gets past the key and parity checks of the Serial constructor
Complete(conf) ==
    /\ {"tty_path", "baud", "parity", "endline", "timeout_s"} \subseteq conf.keys
    /\ conf.parity \in {"none", "even", "odd"}

\* Serial calls whose tty_path is a list (a bare string) and whose config is complete
ListCalls == {c \in SerialCalls : Complete(ConfOf(c)) /\ ConfOf(c).tty_path.kind = "list"}

StrCalls == {c \in SerialCalls : Complete(ConfOf(c)) /\ ConfOf(c).tty_path.kind = "str"}

PatsOf(c) == ConfOf(c).tty_path.val

\* the positions of the patterns with at least one match, and the first of them
Hits(pats) == {k \in 1..Len(pats) : Glob(pats[k]) # {}}

FirstHit(pats) == CHOOSE k \in Hits(pats) : \A j \in Hits(pats) : k <= j

\* C1: once the Serial constructor of a device has ended in ConfigParseError
\* or InputDeviceError, no further variant is tried for that device: the
\* Socket constructor is never invoked for it.
C1_NoVariantAfterSerialError ==
    \A i, j \in 1..Len(calls) :
        (/\ i < j
         /\ calls[i].dev = calls[j].dev
         /\ calls[i].type = "Serial"
         /\ calls[i].r.outcome \in {"ConfigParseError", "InputDeviceError"})
        => calls[j].type # "Socket"

\* C2: a device that fails to initialize (configuration-error, device-error
\* or not-implemented) is never fatal: the process does not end, every device
\* of the mapping is initialized, and the loop starts with exactly the
\* devices whose construction succeeded.
C2_InitFailureNeverFatal ==
    /\ pc # "crashed"
    /\ pc = "select" =>
          /\ \A k \in 1..Len(dev_confs) : \E c \in Range(calls) : c.dev = k
          /\ {d.name : d \in Range(devices)}
                = {c.dev : c \in {x \in Range(calls) : x.r.outcome = "ok"}}

\* C3: with a list of patterns, the patterns are expanded in order, patterns
\* without a match are skipped, and when the first pattern with a match has
\* exactly one, exactly that path is opened and nothing else: one open, no
\* later pattern expanded, and on success the label is 'Serial TTY, <path>'.
C3_UniqueMatchOpened ==
    \A c \in ListCalls :
        LET pats == PatsOf(c)
        IN  (Hits(pats) # {} /\ Cardinality(Glob(pats[FirstHit(pats)])) = 1) =>
               LET p == CHOOSE x \in Glob(pats[FirstHit(pats)]) : TRUE
               IN  /\ c.r.opened = <<p>>
                   /\ c.r.globbed = SubSeq(pats, 1, FirstHit(pats))
                   /\ c.r.outcome = (IF p \in openable THEN "ok" ELSE "InputDeviceError")
                   /\ c.r.outcome = "ok" =>
                         \E d \in Range(devices) :
                            /\ d.name = c.dev
                            /\ d.path = p
                            /\ d.label = <<"Serial TTY, ">> \o p

\* a first pattern without a match was skipped and the second one, with one
\* match, was opened with success
C3_Witness ==
    \E c \in ListCalls :
        /\ Len(PatsOf(c)) = 2
        /\ Glob(PatsOf(c)[1]) = {}
        /\ c.r.outcome = "ok"
        /\ c.r.opened = <<PatsOf(c)[2]>>

\* C4: with a list of patterns, when the first pattern with a match has two
\* or more, construction ends in ConfigParseError naming every matched path;
\* nothing is opened and no later pattern is expanded.
C4_AmbiguousRejected ==
    \A c \in ListCalls :
        LET pats == PatsOf(c)
        IN  (Hits(pats) # {} /\ Cardinality(Glob(pats[FirstHit(pats)])) >= 2) =>
               /\ c.r.outcome = "ConfigParseError"
               /\ c.r.msg.text = "Ambiguous path"
               /\ c.r.msg.paths = Glob(pats[FirstHit(pats)])
               /\ c.r.opened = <<>>
               /\ c.r.globbed = SubSeq(pats, 1, FirstHit(pats))

\* the first pattern was ambiguous while the second one matches one openable path
C4_Witness ==
    \E c \in ListCalls :
        /\ Len(PatsOf(c)) = 2
        /\ Cardinality(Glob(PatsOf(c)[1])) = 2
        /\ Cardinality(Glob(PatsOf(c)[2])) = 1
        /\ Glob(PatsOf(c)[2]) \subseteq openable
        /\ c.r.outcome = "ConfigParseError"

\* C5: a tty_path given as one bare string is treated as a one-element
\* list: the only pattern ever expanded is the whole string, and when that
\* path exists and can be opened the device resolves to it.
C5_BareStringIsOnePattern ==
    \A c \in StrCalls :
        /\ Range(c.r.globbed) \subseteq {PatsOf(c)}
        /\ PatsOf(c) \in openable => (c.r.outcome = "ok" /\ c.r.opened = <<PatsOf(c)>>)

\* C6: with a list of patterns none of which has a match (the empty list
\* too), construction ends in InputDeviceError 'No device found' listing all
\* the patterns, and nothing is opened.
C6_NoDeviceFound ==
    \A c \in ListCalls :
        Hits(PatsOf(c)) = {} =>
            /\ c.r.outcome = "InputDeviceError"
            /\ c.r.msg.text = "No device found for"
            /\ c.r.msg.pats = PatsOf(c)
            /\ c.r.globbed = PatsOf(c)
            /\ c.r.opened = <<>>

\* two patterns were tried and neither had a match
C6_Witness ==
    \E c \in ListCalls :
        /\ Len(PatsOf(c)) = 2
        /\ Hits(PatsOf(c)) = {}
        /\ c.r.outcome = "InputDeviceError"

\* the first of baud, parity, endline, timeout_s that the configuration lacks
FirstAbsent(conf) ==
    IF "baud" \notin conf.keys THEN "baud"
    ELSE IF "parity" \notin conf.keys THEN "parity"
    ELSE IF "endline" \notin conf.keys THEN "endline"
    ELSE "timeout_s"

\* C7: without tty_path the Serial constructor ends in NoDeviceError
\* whatever other keys there are; with tty_path and one of baud, parity,
\* endline, timeout_s absent it ends in ConfigParseError naming the first
\* absent one, before any glob expansion or open.
C7_ShapeClassified ==
    \A c \in SerialCalls :
        LET conf == ConfOf(c)
        IN  /\ "tty_path" \notin conf.keys => c.r.outcome = "NoDeviceError"
            /\ ("tty_path" \in conf.keys
                /\ ~({"baud", "parity", "endline", "timeout_s"} \subseteq conf.keys)) =>
                   /\ c.r.outcome = "ConfigParseError"
                   /\ c.r.msg.text = "Missing config key"
                   /\ c.r.msg.key = FirstAbsent(conf)
                   /\ c.r.globbed = <<>>
                   /\ c.r.opened = <<>>

\* tty_path is there, parity and timeout_s are both absent, and parity was named
C7_Witness ==
    \E c \in SerialCalls :
        /\ ConfOf(c).keys = {"tty_path", "baud", "endline", "tcp_port"}
        /\ c.r.outcome = "ConfigParseError"
        /\ c.r.msg.key = "parity"

\* C8: with parity none, even or odd the constructor goes on to path
\* resolution; with any other value it ends in ConfigParseError listing
\* exactly none, even, odd, before any pattern is expanded or device opened.
C8_ParityTranslated ==
    \A c \in SerialCalls :
        LET conf == ConfOf(c)
        IN  {"tty_path", "baud", "parity", "endline", "timeout_s"} \subseteq conf.keys =>
               IF conf.parity \in {"none", "even", "odd"}
               THEN /\ c.r.msg.text # "Invalid parity value"
                    /\ conf.tty_path.val # <<>> => c.r.globbed # <<>>
               ELSE /\ c.r.outcome = "ConfigParseError"
                    /\ c.r.msg.text = "Invalid parity value"
                    /\ c.r.msg.key = conf.parity
                    /\ c.r.msg.valid = <<"none", "even", "odd">>
                    /\ c.r.globbed = <<>>
                    /\ c.r.opened = <<>>

\* an odd-parity device went on to expand its pattern and a mark-parity
\* device was rejected
C8_Witness ==
    \E c \in SerialCalls :
        /\ {"tty_path", "baud", "parity", "endline", "timeout_s"} \subseteq ConfOf(c).keys
        /\ \/ ConfOf(c).parity = "odd" /\ c.r.outcome = "ok"
           \/ ConfOf(c).parity = "mark" /\ c.r.outcome = "ConfigParseError"

----------------------------------------------------------------------------
(* Properties of the line framing and of the multiplex loop *)

\* the bytes of the reads finished so far on device d, in order, from entry k on
RECURSIVE RawsFrom(_, _)
RawsFrom(d, k) ==
    IF k > Len(rawlog) THEN <<>>
    ELSE (IF rawlog[k].dev = d THEN <<rawlog[k].raw>> ELSE <<>>) \o RawsFrom(d, k + 1)

RECURSIVE Flatten(_)
Flatten(ss) == IF ss = <<>> THEN <<>> ELSE Head(ss) \o Flatten(Tail(ss))

\* the complete lines of a byte stream, each with its terminator
RECURSIVE SplitLines(_, _, _)
SplitLines(bs, t, cur) ==
    IF bs = <<>> THEN <<>>
    ELSE LET c == Append(cur, Head(bs))
         IN  IF EndsWith(c, t)
             THEN <<c>> \o SplitLines(Tail(bs), t, <<>>)
             ELSE SplitLines(Tail(bs), t, c)

\* some proper prefix of bs already ends with t
EarlierEnd(bs, t) == \E k \in 1..(Len(bs) - 1) : EndsWith(SubSeq(bs, 1, k), t)

\* C9: one line read returns the bytes read up to and including the first
\* occurrence of the terminator with exactly that one trailing occurrence
\* removed and nothing else; when the timeout ends the read first, it returns
\* the partial bytes unchanged.
C9_SingleTerminatorStripped ==
    \A k \in 1..Len(rawlog) :
        LET e == rawlog[k]
            t == devices[e.dev].endline
        IN  /\ ~EarlierEnd(e.raw, t)
            /\ e.why = "terminator" =>
                  /\ EndsWith(e.raw, t)
                  /\ e.ret = SubSeq(e.raw, 1, Len(e.raw) - Len(t))
            /\ e.why = "timeout" => e.ret = e.raw

\* the loop sits in the read(1) of device a, whose line is unfinished and
\* which has nothing more to give, while device b has a complete line buffered
WaitsBehind(a, b) ==
    /\ pc = "read"
    /\ reads[ri] = a
    /\ buf[a] = <<>>
    /\ SplitLines(buf[b], devices[b].endline, <<>>) # <<>>

\* every complete line device d has sent was printed as one line, once
WholeLines(d) ==
    (/\ buf[d] = <<>>
     /\ line[d] = <<>>
     /\ Flatten(SplitLines(emitted[d], devices[d].endline, <<>>)) = emitted[d])
    => RawsFrom(d, 1) = SplitLines(emitted[d], devices[d].endline, <<>>)

\* C10: with two live devices and no interrupt, no line is dropped and no
\* device starved: every line emitted is printed exactly once, and a
\* complete line available on one device is printed without waiting for the
\* other device to finish a line.
C10_NoLineWaitsOrSplits ==
    /\ \A a, b \in Live : a # b => ~WaitsBehind(a, b)
    /\ \A d \in Live : WholeLines(d)

\* no byte is lost or duplicated between device and read_until, and every
\* finished read_line was printed once, in order, under the device's name
BytesAccounted ==
    /\ \A d \in Live : Flatten(RawsFrom(d, 1)) \o line[d] \o buf[d] = emitted[d]
    /\ SelectSeq(out, LAMBDA o : o.kind = "line")
          = [k \in 1..Len(rawlog) |->
                Printed("line", devices[rawlog[k].dev].name, NoMsg,
                        ApplyRules(devices[rawlog[k].dev].highlight, rawlog[k].ret))]

\* select reports exactly the readable devices, and the for loop reads each
\* reported device once, in order, before the next select
ReadsEveryReady ==
    /\ (pc = "select" /\ pc' = "read") =>
          /\ ri' = 1
          /\ \A d \in Live : buf[d] # <<>> <=> d \in Range(reads')
          /\ \A i, j \in 1..Len(reads') : i < j => reads'[i] < reads'[j]
    /\ (pc = "read" /\ rawlog' # rawlog) =>
          /\ rawlog' = Append(rawlog, Last(rawlog'))
          /\ Last(rawlog').dev = reads[ri]
          /\ IF ri < Len(reads)
             THEN pc' = "read" /\ ri' = ri + 1 /\ reads' = reads
             ELSE pc' = "select"

\* the number of bytes of device d that finished reads have returned
Returned(d) == Len(Flatten(RawsFrom(d, 1)))

\* C10 (amended): with two live devices, finite timeouts and no interrupt,
\* no byte is dropped or duplicated and no device is starved: every byte a
\* device emits is eventually returned by exactly one read_until whose
\* read_line result is printed exactly once (a line is printed whole when
\* its terminator arrives before the read times out, in pieces otherwise);
\* every iteration reads once from every device select reported ready, so a
\* complete line on one device waits for at most one read_line of the other
\* device, which ends at that device's terminator or timeout.
C10_NoByteLostNoDeviceStarved ==
    /\ []BytesAccounted
    /\ [][ReadsEveryReady]_vars
    /\ \A d \in 1..2 : []<>(d \in Live => Returned(d) = Len(emitted[d]))

\* two devices have both sent bytes; the first read to finish was one of
\* device 1 that timed out on an unfinished line, a read of device 2 ended
\* at its terminator, and everything sent has been returned and printed
C10_Witness ==
    /\ Len(devices) = 2
    /\ \E k \in 1..Len(rawlog) : rawlog[k].dev = 1 /\ rawlog[k].why = "timeout"
    /\ \E k \in 1..Len(rawlog) : rawlog[k].dev = 2 /\ rawlog[k].why = "terminator"
    /\ \A d \in Live : buf[d] = <<>> /\ line[d] = <<>> /\ emitted[d] # <<>>
    /\ rawlog[1].dev = 1
    /\ pc = "select"

----------------------------------------------------------------------------
(* Claim C11 *)

IsPrefix(s, t) == Len(s) <= Len(t) /\ SubSeq(t, 1, Len(s)) = s

\* the texts printed under the name of device d, in print order
PrintedOf(d) ==
    LET ls == SelectSeq(out, LAMBDA o : o.kind = "line" /\ o.dev = devices[d].name)
    IN  [k \in 1..Len(ls) |-> ls[k].text]

\* the lines device d has emitted: its byte stream cut after every
\* terminator, each line without its terminator
EmittedLines(d) ==
    LET t  == devices[d].endline
        ls == SplitLines(emitted[d], t, <<>>)
    IN  [k \in 1..Len(ls) |-> SubSeq(ls[k], 1, Len(ls[k]) - Len(t))]

\* C11: for every live device, the lines printed under its name are, in
\* order, the first lines the device emitted: the printed sequence is always
\* a prefix of the device's emitted line sequence.
C11_PrintedPrefixOfEmittedLines ==
    \A d \in Live : IsPrefix(PrintedOf(d), EmittedLines(d))

\* C11 (amended): for every live device the printed lines follow the
\* device's emission order byte for byte: the k-th line printed under its
\* name is the k-th read of the device without trailing terminator bytes
\* (and after the highlight substitutions, for a device with rules),
\* and the reads of the device, joined in print order, are always a prefix of
\* the byte stream the device emitted.  A printed line is a whole emitted
\* line only when its terminator arrived before the read timed out.
C11_PrintedFollowEmissionOrder ==
    \A d \in Live :
        LET raws == RawsFrom(d, 1)
            ps   == PrintedOf(d)
        IN  /\ Len(ps) = Len(raws)
            /\ \A k \in 1..Len(ps) :
                  \E n \in 0..Len(raws[k]) :
                      /\ ps[k] = ApplyRules(devices[d].highlight, SubSeq(raws[k], 1, n))
                      /\ \A i \in (n + 1)..Len(raws[k]) :
                            raws[k][i] \in Range(devices[d].endline)
            /\ IsPrefix(Flatten(raws), emitted[d])

\* two lines of one device have been printed with a line of the other device
\* between them, one of them a piece cut by the timeout
C11_Witness ==
    \E i, j, k \in 1..Len(rawlog) :
        /\ i < j /\ j < k
        /\ rawlog[i].dev = rawlog[k].dev
        /\ rawlog[j].dev # rawlog[i].dev
        /\ rawlog[i].why = "timeout" /\ rawlog[i].raw # <<>>

----------------------------------------------------------------------------
(* Claim C12 *)

\* C12: the loop leaves the running state only on an interrupt, and then
\* cleanly: whenever the process is no longer in the loop it has terminated
\* through the KeyboardInterrupt clause, whose empty line is the last thing
\* printed; a failed read on a dropped connection does not end the loop.
C12_OnlyInterruptEndsLoop ==
    ~InLoop => /\ pc = "terminated"
               /\ Last(out) = Printed("", 0, NoMsg, <<>>)

----------------------------------------------------------------------------
(* Claim C13 *)

\* the files read so far
Attempted == 1..(ai - 1)

\* the readable files among the first n, in command-line order
RECURSIVE ReadableUpTo(_)
ReadableUpTo(n) ==
    IF n = 0 THEN <<>>
    ELSE ReadableUpTo(n - 1) \o (IF args[n].status = "ok" THEN <<args[n].content>> ELSE <<>>)

\* the configuration of the device `name` in the files cs: that of the last
\* file that holds the name
LastConf(cs, name) ==
    LET holds(c) == \E e \in Range(c) : e.name = name
        k == CHOOSE i \in 1..Len(cs) : holds(cs[i]) /\ \A j \in (i + 1)..Len(cs) : ~holds(cs[j])
    IN  (CHOOSE e \in Range(cs[k]) : e.name = name).conf

\* C13: every configuration file that is missing or unreadable is reported
\* and adds nothing to the merged configuration, and is not fatal: the
\* readable files are merged (a later file overrides an earlier one), the
\* devices of the merged configuration are initialized and the loop starts.
C13_BadConfigFileNotFatal ==
    /\ pc # "crashed"
    /\ \A k \in Attempted :
          args[k].status # "ok"
          => \E o \in Range(out) : o.kind = "Failed opening file" /\ o.dev = k
    /\ LET cs == ReadableUpTo(ai - 1)
       IN  /\ {e.name : e \in Range(config)} = UNION {{e.name : e \in Range(c)} : c \in Range(cs)}
           /\ \A e \in Range(config) : e.conf = LastConf(cs, e.name)
    /\ pc # "config" => ai = Len(args) + 1 /\ dev_confs = Values(config)
    /\ pc = "select" => di = Len(dev_confs) + 1

----------------------------------------------------------------------------
(* Claim C14 *)

\* the text with every occurrence of the character pattern replaced by sub,
\* all occurrences at once
ReplaceAll(pattern, sub, text) ==
    Flatten([k \in 1..Len(text) |-> IF text[k] = pattern THEN sub ELSE <<text[k]>>])

\* the text after the first n rules, each applied to the whole output of the
\* rule before it
RECURSIVE AfterRules(_, _, _)
AfterRules(rules, n, text) ==
    IF n = 0 THEN text
    ELSE ReplaceAll(rules[n].pattern, rules[n].sub, AfterRules(rules, n - 1, text))

\* the line entries of the output
LinesOut == SelectSeq(out, LAMBDA o : o.kind = "line")

\* C14: for every device and every framed line, read_line returns the device
\* name and the text obtained by applying all highlight rules of the device
\* to the whole line, in the insertion order of the configured mapping, each
\* rule on the output of the previous one; a device configured without a
\* highlight key has no rules and its framed line is returned unchanged.
C14_HighlightInOrder ==
    /\ Len(LinesOut) = Len(rawlog)
    /\ \A k \in 1..Len(rawlog) :
          LET d     == rawlog[k].dev
              conf  == dev_confs[devices[d].name]
              rules == IF "highlight" \in conf.keys THEN conf.highlight ELSE <<>>
          IN  /\ LinesOut[k].dev = devices[d].name
              /\ LinesOut[k].text = AfterRules(rules, Len(rules), rawlog[k].ret)
              /\ "highlight" \notin conf.keys => LinesOut[k].text = rawlog[k].ret

\* a line with two occurrences of `a` went through the rules a -> b, b -> c
\* in that order and was printed as `cc`
C14_Witness ==
    /\ dev_confs[1].highlight = <<[pattern |-> "a", sub |-> <<"b">>],
                                 [pattern |-> "b", sub |-> <<"c">>]>>
    /\ \E k \in 1..Len(rawlog) :
          /\ rawlog[k].ret = <<"a", "a">>
          /\ LinesOut[k].text = <<"c", "c">>

----------------------------------------------------------------------------
(* Claim C15 *)

\* C15: the interrupt is taken only in the readiness wait, never during a
\* read_line: the loop never terminates with bytes of a device consumed from
\* the handle and not yet printed.
C15_NoInterruptMidRead ==
    pc = "terminated" => \A d \in Live : line[d] = <<>>

----------------------------------------------------------------------------
(* Claim C16 *)

\* the calls made for the device named n
CallsOf(n) == {k \in 1..Len(calls) : calls[k].dev = n}

\* the number of paths handed to serial.Serial by the calls ks
RECURSIVE Opens(_)
Opens(ks) ==
    IF ks = {} THEN 0
    ELSE LET k == CHOOSE k \in ks : TRUE
         IN  Len(calls[k].r.opened) + Opens(ks \ {k})

\* the names of the devices whose constructor returned a device
ResolvedNames == {calls[k].dev : k \in {j \in 1..Len(calls) : calls[j].r.outcome = "ok"}}

ConstructOnce ==
    /\ \A i, j \in 1..Len(calls) :
          (calls[i].dev = calls[j].dev /\ calls[i].type = calls[j].type) => i = j
    /\ \A n \in 1..Len(dev_confs) : Opens(CallsOf(n)) <= 1
    /\ pc \in {"select", "read", "terminated"} \/ (pc = "crashed" /\ di > Len(dev_confs))
       => /\ {d.name : d \in Range(devices)} = ResolvedNames
          /\ Len(devices) = Cardinality(ResolvedNames)

FixedOnceRunning ==
    InLoop => devices' = devices /\ calls' = calls /\ dev_confs' = dev_confs

\* C16: the device lifecycle is construct-once: over the whole run every
\* device name has at most one constructor call per variant and at most one
\* open attempt, and once the loop runs no step constructs, opens, adds or
\* removes a device: in every running state the live devices are exactly the
\* devices resolved at startup.
C16_ConstructOnce ==
    []ConstructOnce /\ [][FixedOnceRunning]_vars

\* the loop has printed a line and then a failed read on a dropped connection
\* has ended it, with the device still in the list and never reopened
C16_Witness ==
    /\ pc = "crashed"
    /\ gone # {}
    /\ rawlog # <<>>
    /\ Len(devices) = 2

----------------------------------------------------------------------------
(* Claim C17 *)

\* the devices whose config holds both discriminator keys and whose Serial
\* constructor returned a device
BothSerialOk ==
    {c \in SerialCalls : /\ {"tty_path", "tcp_port"} \subseteq ConfOf(c).keys
                         /\ c.r.outcome = "ok"}

\* C17: the variants are probed in the order Serial, Socket, and probing stops
\* at the first success: every Socket call of a device comes after the Serial
\* call of that device, and for a device whose config holds both tty_path and
\* tcp_port and whose Serial construction succeeds, the live device is the
\* Serial one, the Socket constructor is never invoked for it, and its
\* initialization raises no NotImplementedError.
C17_SerialFirstStopsProbing ==
    /\ \A j \in 1..Len(calls) :
            calls[j].type = "Socket"
            => \E i \in 1..(j - 1) : calls[i].dev = calls[j].dev /\ calls[i].type = "Serial"
    /\ \A c \in BothSerialOk :
            /\ Device(c.dev, c.r) \in Range(devices)
            /\ Cardinality({k \in 1..Len(devices) : devices[k].name = c.dev}) = 1
            /\ \A x \in Range(calls) :
                    x.dev = c.dev => x.type = "Serial" /\ x.r.outcome # "NotImplementedError"
            /\ pc = "crashed" => Last(calls).dev # c.dev

\* a device with both keys has been resolved as Serial and the initialization
\* has moved past it
C17_Witness ==
    \E c \in BothSerialOk : di > c.dev

----------------------------------------------------------------------------
(* Claim C18 *)

\* the devices whose config holds no discriminator key and whose inner loop
\* has ended
Unclaimed ==
    {k \in 1..Len(dev_confs) :
        /\ dev_confs[k].keys \cap {"tty_path", "tcp_port"} = {}
        /\ di > k}

\* C18: for a device whose config holds neither tty_path nor tcp_port, every
\* variant ends in NoDeviceError, nothing is globbed or opened, the device is
\* not added to the live set, and a generic failed-to-initialize message
\* naming the device is printed.
C18_UnclaimedReported ==
    \A k \in Unclaimed :
        /\ {c.type : c \in {x \in Range(calls) : x.dev = k}} = Range(DevTypes)
        /\ \A c \in Range(calls) :
                c.dev = k => /\ c.r.outcome = "NoDeviceError"
                             /\ c.r.globbed = <<>>
                             /\ c.r.opened = <<>>
        /\ \A d \in Range(devices) : d.name # k
        /\ \E o \in Range(out) : o.dev = k /\ o.kind = "Failed initializing"

----------------------------------------------------------------------------
(* Claim C19 *)

\* the initialization has ended with no live device
NoneResolved == di > Len(dev_confs) /\ devices = <<>>

IdleLoop ==
    /\ (pc = "init" /\ NoneResolved) => ENABLED StartLoop
    /\ (pc \notin {"config", "init"} /\ NoneResolved) =>
          /\ pc \in {"select", "terminated"}
          /\ pc = "select" => ~ENABLED Select /\ ENABLED Interrupt
          /\ pc = "terminated" => Last(out) = Printed("", 0, NoMsg, <<>>)
          /\ reads = <<>> /\ rawlog = <<>> /\ iter = 0
          /\ \A o \in Range(out) : o.kind \notin {"line", "banner"}

IdleUntilInterrupt ==
    (pc = "select" /\ NoneResolved /\ pc' # pc) =>
        /\ pc' = "terminated"
        /\ out' = Append(out, Printed("", 0, NoMsg, <<>>))

\* C19: when no device resolves, the loop is still entered and blocks in
\* select with nothing to wait on: it prints no device line and reads
\* nothing, and it stays running until an interrupt terminates it.
C19_IdleLoopWithoutDevices ==
    []IdleLoop /\ [][IdleUntilInterrupt]_vars

\* a configuration with a device that failed to resolve: the loop was
\* entered with no live device and an interrupt has ended it
C19_Witness ==
    /\ pc = "terminated"
    /\ Len(dev_confs) >= 1
    /\ devices = <<>>

----------------------------------------------------------------------------
(* Claim C20 *)

\* the number of read_line calls that have returned for the device d
ReadCount(d) == Cardinality({k \in 1..Len(rawlog) : rawlog[k].dev = d})

\* in the states of the loop: `reads` names each device at most once, in the
\* order of `devices`; a read that is about to start finds a byte waiting; no
\* read has returned more than one terminated line; no device has been read
\* more often than select has returned
OneReadPerReport ==
    /\ \A i, j \in 1..Len(reads) : i < j => reads[i] < reads[j]
    /\ pc = "read" =>
          /\ ri \in 1..Len(reads)
          /\ line[reads[ri]] = <<>> => buf[reads[ri]] # <<>>
    /\ \A k \in 1..Len(rawlog) :
          ~EarlierEnd(rawlog[k].raw, devices[rawlog[k].dev].endline)
    /\ \A d \in Live : ReadCount(d) <= iter

\* in the steps of the loop: select reports exactly devices with a byte
\* waiting; bytes are taken only from the device reads[ri] of the running
\* iteration; a read_line that returns is the one of reads[ri], and the loop
\* then moves to the next reported device or back to select
ReadsOnlyReported ==
    /\ reads' # reads =>
          /\ pc = "select" /\ iter' = iter + 1
          /\ \A d \in Range(reads') : buf[d] # <<>>
    /\ \A d \in Live :
          (Len(buf'[d]) < Len(buf[d]) \/ line'[d] # line[d])
          => pc = "read" /\ d = reads[ri]
    /\ rawlog' # rawlog =>
          /\ pc = "read"
          /\ Len(rawlog') = Len(rawlog) + 1
          /\ Last(rawlog').dev = reads[ri]
          /\ iter' = iter
          /\ IF ri < Len(reads)
             THEN pc' = "read" /\ ri' = ri + 1 /\ reads' = reads
             ELSE pc' = "select"

\* C20: in every iteration read_line is invoked only on devices that select
\* reported ready in that iteration, at most once each; a device that was not
\* reported is never read, no read starts on a device with nothing waiting,
\* and since one read returns at most one line, a device is read at most once
\* per iteration: k buffered lines take k iterations.
C20_ReadOnlyReadyOncePerIteration ==
    []OneReadPerReport /\ [][ReadsOnlyReported]_vars

\* after the first iteration has read one line of a device, a further
\* complete line of that device is still waiting for the next select
C20_Witness ==
    \E d \in Live :
        /\ pc = "select" /\ iter = 1
        /\ Len(rawlog) = 1 /\ rawlog[1].dev = d /\ rawlog[1].why = "terminator"
        /\ EndsWith(buf[d], devices[d].endline)

====
